---- MODULE Spec2Model ----
(***************************************************************************)
(* Model of src/main.py of WordleEntropySolver: the feedback-pattern       *)
(* function calculate_pattern, the entropy-based guess selection           *)
(* (compute_entropy, calculate_entropies, max over the entropies) and the  *)
(* solver loop wordle_solver with its external collaborators input_guess   *)
(* and retrieve_feedback.                                                  *)
(*                                                                         *)
(* A word is a sequence of letters, a pattern a sequence over {0, 1, 2},   *)
(* a feedback a list of data-state strings as retrieve_feedback returns    *)
(* it.  Two specifications are given: Spec is one run of wordle_solver,    *)
(* PatternSpec applies calculate_pattern to every pair of equal-length     *)
(* words over the alphabet.                                                *)
(***************************************************************************)
EXTENDS Integers, Sequences, FiniteSets, TLC

VARIABLES
    all_words,       \* list loaded from DICT_FILE_ALL; wordle_solver's secret universe
    main_words,      \* list loaded from DICT_FILE; the vocabulary scored when > 2 remain
    possible_words,  \* wordle_solver's local set
    attempt,         \* the for loop's variable
    pc,              \* position inside wordle_solver
    guess,           \* the guess selected on this attempt
    guess2,          \* what a second selection on the same inputs returns
    feedback,        \* the last value retrieve_feedback returned
    exit,            \* how the for loop was left
    message,         \* what wordle_solver printed on leaving
    submitted,       \* the guesses handed to input_guess, in order
    applied,         \* the <<guess, pattern>> pairs the filter at line 147 used
    genuine_for,     \* the hidden words for which every feedback so far was genuine
    smallAt,         \* first attempt that started with at most 2 possible words
    scored,          \* the words calculate_entropies scored on this attempt
    input_ok,        \* the last value input_guess returned
    cp_guess,        \* PatternSpec: the guess argument
    cp_answer,       \* PatternSpec: the answer argument
    cp_pattern,      \* PatternSpec: the returned pattern
    cp_pc            \* PatternSpec: "call" before, "returned" after

solverVars == <<all_words, main_words, possible_words, attempt, pc, guess,
                guess2, feedback, exit, message, submitted, applied, genuine_for,
                smallAt, scored, input_ok>>
patternVars == <<cp_guess, cp_answer, cp_pattern, cp_pc>>
vars == <<solverVars, patternVars>>

-----------------------------------------------------------------------------
(* Program constants *)

N_GUESSES == 6

SmallThreshold == 2

Absent == 0

Present == 1

Correct == 2

(* Bounds of the model *)

PatLen == 5

MaxTiles == 4

MaxWords == 3

Alphabet == {"a", "b", "c"}

None == "None"

NoGuess == <<>>

\* The words the model's dictionaries are drawn from: three anagrams with a
\* repeated letter, a word that tells one anagram from the other two, and a
\* word that shares no letter with the anagrams.
Vocabulary ==
    { <<"a","a","b">>, <<"a","b","a">>, <<"b","a","a">>,
      <<"a","c","c">>, <<"c","c","c">> }

-----------------------------------------------------------------------------
(* calculate_pattern, main.py 49-60 *)

\* first index of char in the list chars (list.index); 0 if absent
RECURSIVE IndexOf(_, _, _)
IndexOf(chars, char, i) ==
    IF i > Len(chars) THEN 0
    ELSE IF chars[i] = char THEN i
    ELSE IndexOf(chars, char, i + 1)

\* first loop: exact matches are marked 2 and their answer letter consumed
RECURSIVE Pass1(_, _, _, _)
Pass1(g, answer, i, st) ==
    IF i > Len(g) THEN st
    ELSE IF g[i] = answer[i]
         THEN Pass1(g, answer, i + 1,
                    [pattern      |-> [st.pattern EXCEPT ![i] = Correct],
                     answer_chars |-> [st.answer_chars EXCEPT ![i] = None]])
         ELSE Pass1(g, answer, i + 1, st)

\* second loop: an unmarked letter still among answer_chars is marked 1 and
\* the first remaining instance consumed
RECURSIVE Pass2(_, _, _)
Pass2(g, i, st) ==
    IF i > Len(g) THEN st
    ELSE IF st.pattern[i] = Absent /\ IndexOf(st.answer_chars, g[i], 1) # 0
         THEN Pass2(g, i + 1,
                    [pattern      |-> [st.pattern EXCEPT ![i] = Present],
                     answer_chars |-> [st.answer_chars EXCEPT
                                         ![IndexOf(st.answer_chars, g[i], 1)] = None]])
         ELSE Pass2(g, i + 1, st)

\* a single pass that marks Present without consuming answer letters
calculate_pattern_naive(g, answer) ==
    [i \in 1..Len(g) |->
        IF g[i] = answer[i] THEN Correct
        ELSE IF \E j \in 1..Len(answer) : answer[j] = g[i] THEN Present
        ELSE Absent]

calculate_pattern(g, answer) ==
    Pass2(g, 1,
          Pass1(g, answer, 1,
                [pattern |-> [i \in 1..Len(g) |-> Absent],
                 answer_chars |-> answer])).pattern

-----------------------------------------------------------------------------
(* convert_feedback, main.py 62-65 *)

States == {"correct", "present", "absent"}

state_map(state) ==
    CASE state = "correct" -> Correct
      [] state = "present" -> Present
      [] state = "absent"  -> Absent

\* state_map[state] raises KeyError for any other data-state
RaisesKeyError(fb) == \E i \in 1..Len(fb) : fb[i] \notin States

convert_feedback(fb) == [i \in 1..Len(fb) |-> state_map(fb[i])]

\* all(state == 'correct' for state in feedback), main.py 143
AllCorrect(fb) == \A i \in 1..Len(fb) : fb[i] = "correct"


-----------------------------------------------------------------------------
(* compute_entropy, main.py 111-114 *)

Range(s) == {s[i] : i \in 1..Len(s)}

\* the orders in which a Python set, or the keys of a dict filled from one,
\* may be iterated
RECURSIVE Orders(_)
Orders(S) ==
    IF S = {} THEN {<<>>}
    ELSE UNION {{<<x>> \o rest : rest \in Orders(S \ {x})} : x \in S}

\* Counter(calculate_pattern(word, w) for w in possible_words)
patterns(word, possible) ==
    [p \in {calculate_pattern(word, w) : w \in possible} |->
        Cardinality({w \in possible : calculate_pattern(word, w) = p})]

\* list(patterns.values()): the counts in the insertion order of the keys,
\* which is the order of first occurrence of each pattern while the set
\* possible_words is iterated; every order of the keys comes from some
\* iteration order of the set
CounterValues(counter) ==
    {[i \in 1..Len(keys) |-> counter[keys[i]]] : keys \in Orders(DOMAIN counter)}

\* scipy.stats.entropy(counts) in float64: pk = counts / sum(counts), the terms
\* -pk * log(pk), added from left to right.  The value depends on the order of
\* the counts: <<2, 2, 1, 1>> and <<2, 1, 2, 1>> differ in the last bit.  The
\* table holds the float64 result v for every sequence of counts that sums to
\* at most 6, as <<h, l>> with v * 2^54 = h * 2^28 + l.
EntropyTable ==
    (<<1>> :> <<0, 0>>)
      @@ (<<1, 1>> :> <<46516319, 234124254>>)
      @@ (<<2>> :> <<0, 0>>)
      @@ (<<1, 1, 1>> :> <<73726622, 179571752>>)
      @@ (<<1, 2>> :> <<42715742, 202445888>>)
      @@ (<<2, 1>> :> <<42715742, 202445888>>)
      @@ (<<3>> :> <<0, 0>>)
      @@ (<<1, 1, 1, 1>> :> <<93032639, 199813052>>)
      @@ (<<1, 1, 2>> :> <<69774479, 216968652>>)
      @@ (<<1, 2, 1>> :> <<69774479, 216968652>>)
      @@ (<<1, 3>> :> <<37737672, 199351964>>)
      @@ (<<2, 1, 1>> :> <<69774479, 216968652>>)
      @@ (<<2, 2>> :> <<46516319, 234124254>>)
      @@ (<<3, 1>> :> <<37737672, 199351964>>)
      @@ (<<4>> :> <<0, 0>>)
      @@ (<<1, 1, 1, 1, 1>> :> <<108007549, 263599312>>)
      @@ (<<1, 1, 1, 2>> :> <<89401022, 8888336>>)
      @@ (<<1, 1, 2, 1>> :> <<89401022, 8888336>>)
      @@ (<<1, 1, 3>> :> <<63771576, 102169168>>)
      @@ (<<1, 2, 1, 1>> :> <<89401022, 8888336>>)
      @@ (<<1, 2, 2>> :> <<70794494, 22612816>>)
      @@ (<<1, 3, 1>> :> <<63771576, 102169168>>)
      @@ (<<1, 4>> :> <<33581438, 50061776>>)
      @@ (<<2, 1, 1, 1>> :> <<89401022, 8888336>>)
      @@ (<<2, 1, 2>> :> <<70794494, 22612816>>)
      @@ (<<2, 2, 1>> :> <<70794494, 22612816>>)
      @@ (<<2, 3>> :> <<45165048, 115893648>>)
      @@ (<<3, 1, 1>> :> <<63771576, 102169168>>)
      @@ (<<3, 2>> :> <<45165048, 115893648>>)
      @@ (<<4, 1>> :> <<33581438, 50061776>>)
      @@ (<<5>> :> <<0, 0>>)
      @@ (<<1, 1, 1, 1, 1, 1>> :> <<120242942, 145260548>>)
      @@ (<<1, 1, 1, 1, 2>> :> <<104737502, 156697616>>)
      @@ (<<1, 1, 1, 2, 1>> :> <<104737502, 156697616>>)
      @@ (<<1, 1, 1, 3>> :> <<83379631, 55474676>>)
      @@ (<<1, 1, 2, 1, 1>> :> <<104737502, 156697616>>)
      @@ (<<1, 1, 2, 2>> :> <<89232062, 168134688>>)
      @@ (<<1, 1, 3, 1>> :> <<83379631, 55474672>>)
      @@ (<<1, 1, 4>> :> <<58221182, 191008820>>)
      @@ (<<1, 2, 1, 1, 1>> :> <<104737502, 156697616>>)
      @@ (<<1, 2, 1, 2>> :> <<89232062, 168134688>>)
      @@ (<<1, 2, 2, 1>> :> <<89232062, 168134688>>)
      @@ (<<1, 2, 3>> :> <<67874191, 66911744>>)
      @@ (<<1, 3, 1, 1>> :> <<83379631, 55474672>>)
      @@ (<<1, 3, 2>> :> <<67874191, 66911744>>)
      @@ (<<1, 4, 1>> :> <<58221182, 191008820>>)
      @@ (<<1, 5>> :> <<30236650, 238769159>>)
      @@ (<<2, 1, 1, 1, 1>> :> <<104737502, 156697616>>)
      @@ (<<2, 1, 1, 2>> :> <<89232062, 168134688>>)
      @@ (<<2, 1, 2, 1>> :> <<89232062, 168134688>>)
      @@ (<<2, 1, 3>> :> <<67874191, 66911744>>)
      @@ (<<2, 2, 1, 1>> :> <<89232062, 168134684>>)
      @@ (<<2, 2, 2>> :> <<73726622, 179571752>>)
      @@ (<<2, 3, 1>> :> <<67874191, 66911740>>)
      @@ (<<2, 4>> :> <<42715742, 202445888>>)
      @@ (<<3, 1, 1, 1>> :> <<83379631, 55474672>>)
      @@ (<<3, 1, 2>> :> <<67874191, 66911744>>)
      @@ (<<3, 2, 1>> :> <<67874191, 66911740>>)
      @@ (<<3, 3>> :> <<46516319, 234124254>>)
      @@ (<<4, 1, 1>> :> <<58221182, 191008820>>)
      @@ (<<4, 2>> :> <<42715742, 202445888>>)
      @@ (<<5, 1>> :> <<30236650, 238769159>>)
      @@ (<<6>> :> <<0, 0>>)

entropy(counts) == EntropyTable[counts]

\* the float64 values compute_entropy(word, possible_words) can return
compute_entropy(word, possible) ==
    {entropy(counts) : counts \in CounterValues(patterns(word, possible))}

\* the comparison max() makes on two float64 entropies
EntropyGreater(x, y) == x[1] > y[1] \/ (x[1] = y[1] /\ x[2] > y[2])

-----------------------------------------------------------------------------
(* calculate_entropies and the selection, main.py 116-119 and 130-131 *)

\* the entropies pool.starmap can return for words, as a function of the
\* position in words: every worker iterates its own copy of the set
\* possible_words, in an order of its own
calculate_entropies(words, possible) ==
    LET values == [i \in 1..Len(words) |-> compute_entropy(words[i], possible)]
    IN  {e \in [1..Len(words) -> UNION {values[i] : i \in 1..Len(words)}] :
            \A i \in 1..Len(words) : e[i] \in values[i]}

\* the pool with the threshold one lower: two remaining words are not scored
\* against themselves but main_words is
CandidatePoolThresholdOne(possible, main) ==
    IF Cardinality(possible) > SmallThreshold - 1 THEN {main} ELSE Orders(possible)

\* the pool with the threshold off by one
CandidatePoolOffByOne(possible, main) ==
    IF Cardinality(possible) > SmallThreshold + 1 THEN {main} ELSE Orders(possible)

\* main_words if len(possible_words) > 2 else possible_words: the sequences
\* in which the chosen collection can be handed to calculate_entropies
CandidatePool(possible, main) ==
    IF Cardinality(possible) > SmallThreshold THEN {main} ELSE Orders(possible)

\* max(entropies, key=entropies.get): the position of the first key, in the
\* dict's insertion order, whose entropy no earlier key reaches
RECURSIVE FirstMax(_, _, _)
FirstMax(e, i, best) ==
    IF i > Len(e) THEN best
    ELSE IF EntropyGreater(e[i], e[best])
         THEN FirstMax(e, i + 1, i)
         ELSE FirstMax(e, i + 1, best)

\* the guesses lines 130-131 can select from words
SelectedGuesses(words, possible) ==
    {words[FirstMax(e, 2, 1)] : e \in calculate_entropies(words, possible)}

-----------------------------------------------------------------------------
(* CandidateFilter: the comprehension at main.py 147 *)

\* the filter that compares the tuple calculate_pattern returns with a list
\* (the pattern not made a tuple): in Python the two are never equal
FilterTupleAgainstList(possible, g, pattern) ==
    {word \in possible : <<"tuple", calculate_pattern(g, word)>> = <<"list", pattern>>}

\* the filter that keeps the words that do not match
FilterNegated(possible, g, pattern) ==
    {word \in possible : calculate_pattern(g, word) # pattern}

Filter(possible, g, pattern) ==
    {word \in possible : calculate_pattern(g, word) = pattern}

-----------------------------------------------------------------------------
(* The environment: the dictionaries and the game's feedback *)

VocabularyList ==
    << <<"a","a","b">>, <<"a","b","a">>, <<"b","a","a">>,
       <<"a","c","c">>, <<"c","c","c">> >>

\* Both dictionary files hold at least one word.  all_words is only read
\* through set(all_words) (main.py 124), so its order does not matter: the
\* file holds the first words of VocabularyList, up to MaxWords of them.
AllWordsLists ==
    {SubSeq(VocabularyList, 1, n) : n \in 1..MaxWords}

\* main_words is iterated in order, so every order is drawn, of every
\* choice among two words: one that leaves two of the anagrams together and
\* one that tells nothing about them
MainVocabulary == { <<"a","c","c">>, <<"c","c","c">> }

MainWordsLists ==
    UNION {Orders(S) : S \in (SUBSET MainVocabulary) \ {{}}}

StateName(code) ==
    CASE code = Correct -> "correct"
      [] code = Present -> "present"
      [] code = Absent  -> "absent"

\* the data-states the game shows for guess g when its hidden word is s
GenuineFeedback(g, s) ==
    LET p == calculate_pattern(g, s) IN [i \in 1..Len(p) |-> StateName(p[i])]

\* what get_attribute('data-state') (main.py 87) can return for a tile: the
\* three evaluated states, a typed letter not yet evaluated, an empty tile,
\* and None for an element without the attribute
DataStates == States \cup {"tbd", "empty", None}

\* what retrieve_feedback (main.py 81-90) can return besides None: one entry
\* per tile the row's selector matched, whatever their number (fewer or more
\* than the letters of the guess, up to MaxTiles) and whatever they hold
FeedbackInputs(g) == UNION {[1..n -> DataStates] : n \in 0..MaxTiles}

\* the value of feedback before the first retrieve_feedback call
NotRetrieved == <<"NotRetrieved">>

\* retrieve_feedback returned None instead of a row (main.py 88-90)
NoFeedback == <<"retrieve_feedback", "None">>

FailedMessage == "No possible words remaining or failed to solve."

-----------------------------------------------------------------------------
(* wordle_solver, main.py 122-149 *)

PatternIdle ==
    /\ cp_guess = <<>>
    /\ cp_answer = <<>>
    /\ cp_pattern = <<>>
    /\ cp_pc = "idle"

Init ==
    /\ all_words \in AllWordsLists
    /\ main_words \in MainWordsLists
    /\ possible_words = Range(all_words)
    /\ attempt = 1
    /\ pc = "loop"
    /\ guess = NoGuess
    /\ guess2 = NoGuess
    /\ feedback = NotRetrieved
    /\ exit = "none"
    /\ message = ""
    /\ submitted = <<>>
    /\ applied = <<>>
    /\ genuine_for = Vocabulary
    /\ smallAt = 0
    /\ scored = {}
    /\ input_ok = TRUE
    /\ PatternIdle

\* line 126: range(1, N_GUESSES + 1) is used up; line 149 prints
LoopEnd ==
    /\ pc = "loop"
    /\ attempt > N_GUESSES
    /\ pc' = "done"
    /\ exit' = "loop_end"
    /\ message' = FailedMessage
    /\ UNCHANGED <<all_words, main_words, possible_words, attempt, guess,
                   guess2, feedback, submitted, applied, genuine_for, smallAt, scored,
                   input_ok, patternVars>>

\* lines 130-131 with an empty collection: Pool(min(cpu_count(), 0)) raises
\* ValueError, which nothing catches
SelectRaises ==
    /\ pc = "loop"
    /\ attempt <= N_GUESSES
    /\ \A words \in CandidatePool(possible_words, main_words) : Len(words) = 0
    /\ pc' = "done"
    /\ exit' = "ValueError"
    /\ UNCHANGED <<all_words, main_words, possible_words, attempt, guess,
                   guess2, feedback, message, submitted, applied, genuine_for, smallAt,
                   scored, input_ok, patternVars>>

\* lines 130-131: the entropies of the pool, and the first maximum in the
\* pool's iteration order.  guess2 is the result of the same selection made
\* again on the same collection and the same possible_words.
SelectGuess ==
    /\ pc = "loop"
    /\ attempt <= N_GUESSES
    /\ \E words, words2 \in CandidatePool(possible_words, main_words) :
          /\ Len(words) > 0
          /\ guess' \in SelectedGuesses(words, possible_words)
          /\ guess2' \in SelectedGuesses(words2, possible_words)
          /\ scored' = Range(words)
    /\ smallAt' = IF smallAt = 0 /\ Cardinality(possible_words) <= SmallThreshold
                  THEN attempt ELSE smallAt
    /\ pc' = "submit"
    /\ UNCHANGED <<all_words, main_words, possible_words, attempt, feedback,
                   exit, message, submitted, applied, genuine_for, input_ok, patternVars>>

\* line 133: input_guess returned True
SubmitOk ==
    /\ pc = "submit"
    /\ submitted' = Append(submitted, guess)
    /\ input_ok' = TRUE
    /\ pc' = "observe"
    /\ UNCHANGED <<all_words, main_words, possible_words, attempt, guess,
                   guess2, feedback, exit, message, applied, genuine_for, smallAt, scored,
                   patternVars>>

\* input_guess returned False and the loop goes on with the next attempt
SubmitFailsContinue ==
    /\ pc = "submit"
    /\ submitted' = Append(submitted, guess)
    /\ input_ok' = FALSE
    /\ attempt' = attempt + 1
    /\ pc' = "loop"
    /\ UNCHANGED <<all_words, main_words, possible_words, guess, guess2,
                   feedback, exit, message, applied, genuine_for, smallAt, scored,
                   patternVars>>

\* lines 133-134 and 149: input_guess returned False; break, then the print
SubmitFails ==
    /\ pc = "submit"
    /\ submitted' = Append(submitted, guess)
    /\ input_ok' = FALSE
    /\ pc' = "done"
    /\ exit' = "break"
    /\ message' = FailedMessage
    /\ UNCHANGED <<all_words, main_words, possible_words, attempt, guess,
                   guess2, feedback, applied, genuine_for, smallAt, scored, patternVars>>

\* lines 136-138 and 149: retrieve_feedback returned None; break, then the print
FeedbackNone ==
    /\ pc = "observe"
    /\ feedback' = NoFeedback
    /\ pc' = "done"
    /\ exit' = "break"
    /\ message' = FailedMessage
    /\ UNCHANGED <<all_words, main_words, possible_words, attempt, guess,
                   guess2, submitted, applied, genuine_for, smallAt, scored, input_ok,
                   patternVars>>

\* lines 136-140: a data-state outside state_map; convert_feedback raises KeyError
ObserveKeyError ==
    /\ pc = "observe"
    /\ \E fb \in FeedbackInputs(guess) :
          /\ RaisesKeyError(fb)
          /\ feedback' = fb
          /\ genuine_for' = {s \in genuine_for : fb = GenuineFeedback(guess, s)}
    /\ pc' = "done"
    /\ exit' = "KeyError"
    /\ UNCHANGED <<all_words, main_words, possible_words, attempt, guess,
                   guess2, message, submitted, applied, smallAt, scored, input_ok,
                   patternVars>>

\* lines 136-145: every state of the feedback is 'correct'; print and return
ObserveSolved ==
    /\ pc = "observe"
    /\ \E fb \in FeedbackInputs(guess) :
          /\ ~RaisesKeyError(fb)
          /\ AllCorrect(fb)
          /\ feedback' = fb
          /\ genuine_for' = {s \in genuine_for : fb = GenuineFeedback(guess, s)}
    /\ pc' = "done"
    /\ exit' = "return"
    /\ message' = "Solved"
    /\ UNCHANGED <<all_words, main_words, possible_words, attempt, guess,
                   guess2, submitted, applied, smallAt, scored, input_ok, patternVars>>

\* lines 136-147: any other feedback; possible_words is filtered and the loop
\* goes to the next attempt
ObserveFilter ==
    /\ pc = "observe"
    /\ \E fb \in FeedbackInputs(guess) :
          /\ ~RaisesKeyError(fb)
          /\ ~AllCorrect(fb)
          /\ feedback' = fb
          /\ genuine_for' = {s \in genuine_for : fb = GenuineFeedback(guess, s)}
          /\ possible_words' = Filter(possible_words, guess, convert_feedback(fb))
          /\ applied' = Append(applied, <<guess, convert_feedback(fb)>>)
    /\ attempt' = attempt + 1
    /\ pc' = "loop"
    /\ UNCHANGED <<all_words, main_words, guess, guess2, exit, message,
                   submitted, smallAt, scored, input_ok, patternVars>>

Next ==
    \/ LoopEnd
    \/ SelectRaises
    \/ SelectGuess
    \/ SubmitOk
    \/ SubmitFails
    \/ FeedbackNone
    \/ ObserveKeyError
    \/ ObserveSolved
    \/ ObserveFilter

Spec == Init /\ [][Next]_vars

-----------------------------------------------------------------------------
(* calculate_pattern applied to every pair of words of length PatLen *)

PatWords == [1..PatLen -> Alphabet]

PatternInit ==
    /\ cp_guess \in PatWords
    /\ cp_answer \in PatWords
    /\ cp_pattern = <<>>
    /\ cp_pc = "call"
    /\ all_words = <<>>
    /\ main_words = <<>>
    /\ possible_words = {}
    /\ attempt = 1
    /\ pc = "idle"
    /\ guess = NoGuess
    /\ guess2 = NoGuess
    /\ feedback = NotRetrieved
    /\ exit = "none"
    /\ message = ""
    /\ submitted = <<>>
    /\ applied = <<>>
    /\ genuine_for = Vocabulary
    /\ smallAt = 0
    /\ scored = {}
    /\ input_ok = TRUE

CallPattern ==
    /\ cp_pc = "call"
    /\ cp_pattern' = calculate_pattern(cp_guess, cp_answer)
    /\ cp_pc' = "returned"
    /\ UNCHANGED <<cp_guess, cp_answer, solverVars>>

PatternNext == CallPattern

PatternSpec == PatternInit /\ [][PatternNext]_vars

-----------------------------------------------------------------------------
(* Properties *)

\* the words of the dictionary consistent with every pair the filter applied
ConsistentWords ==
    {w \in Range(all_words) :
        \A k \in 1..Len(applied) : calculate_pattern(applied[k][1], w) = applied[k][2]}

\* the last feedback is one 'correct' per letter of the guess
FullAllCorrect ==
    /\ feedback # NotRetrieved
    /\ feedback # NoFeedback
    /\ Len(feedback) = Len(guess)
    /\ AllCorrect(feedback)

Count(S) == Cardinality(S)

\* C1: a hidden word that is in all_words and for which every feedback so far
\* was the genuine pattern calculate_pattern(guess, hidden word) is still in
\* possible_words, after any number of turns.
C1_Soundness ==
    \A s \in genuine_for : s \in Range(all_words) => s \in possible_words

\* two filters were applied with genuine feedback, each removed a word, and
\* the hidden word is still there
C1_Witness ==
    /\ Len(applied) = 2
    /\ \E s \in genuine_for : s \in possible_words
    /\ Count(possible_words) + 2 <= Count(Range(all_words))

\* C2: calculate_pattern(g, s) marks Correct exactly where g[i] = s[i], and
\* for every letter c the positions of g that hold c and are marked Correct
\* or Present are no more than the occurrences of c in s.
C2_PatternMarks ==
    cp_pc = "returned" =>
        /\ Len(cp_pattern) = Len(cp_guess)
        /\ \A i \in 1..Len(cp_guess) :
              (cp_pattern[i] = Correct) <=> (cp_guess[i] = cp_answer[i])
        /\ \A c \in Alphabet :
              Count({i \in 1..Len(cp_guess) :
                        cp_guess[i] = c /\ cp_pattern[i] \in {Present, Correct}})
                <= Count({j \in 1..Len(cp_answer) : cp_answer[j] = c})

\* a returned pattern in which a letter of the guess is marked Absent although
\* the answer holds it, because its instances were consumed, and another
\* instance of it is marked Present
C2_Witness ==
    /\ cp_pc = "returned"
    /\ \E i, k \in 1..Len(cp_guess) :
          /\ cp_guess[i] = cp_guess[k]
          /\ cp_pattern[i] = Absent
          /\ cp_pattern[k] = Present
          /\ \E j \in 1..Len(cp_answer) : cp_answer[j] = cp_guess[i]

\* C3: every word of possible_words is consistent with every (guess, observed
\* pattern) pair the filter step applied so far.
C3_Consistent ==
    \A w \in possible_words :
        \A k \in 1..Len(applied) : calculate_pattern(applied[k][1], w) = applied[k][2]

\* two feedbacks were applied, words were removed and some remain
C3_Witness ==
    /\ Len(applied) = 2
    /\ possible_words # {}
    /\ possible_words # Range(all_words)
    /\ applied[1] # applied[2]

\* C4: a selection made again on the same candidate words and the same
\* possible_words returns the same guess.
C4_Deterministic == guess2 = guess

\* every row applied so far is the one the game shows for one and the same
\* hidden word over the alphabet
GenuineRun ==
    \E s \in [DOMAIN VocabularyList[1] -> Alphabet] :
        \A k \in 1..Len(applied) : applied[k][2] = calculate_pattern(applied[k][1], s)

\* C5: when possible_words is empty at the start of a turn, the loop goes to
\* Exhausted: it leaves through the end of the loop and prints, selecting and
\* submitting nothing and raising nothing.  Stated for the runs in which every
\* row was the game's row for its hidden word, where the empty set means that
\* the hidden word is not in all_words.
C5_EmptyIsExhausted ==
    [][ (pc = "loop" /\ attempt <= N_GUESSES /\ possible_words = {} /\ GenuineRun)
          => (exit' = "loop_end" /\ message' = FailedMessage
              /\ guess' = guess /\ submitted' = submitted) ]_vars

\* C6: a feedback that is all Correct ends the loop as Solved on that turn
\* with no filtering, and Solved is reported only for a feedback that is all
\* Correct over the full length of the word.
C6_SolvedIffAllCorrect ==
    /\ FullAllCorrect => (exit = "return" /\ pc = "done" /\ Len(applied) = attempt - 1)
    /\ exit = "return" => FullAllCorrect

\* after a failure of input_guess or retrieve_feedback the loop was left by
\* break, the failing turn applied no filter and no guess was submitted after
C7_Aborted ==
    (input_ok = FALSE \/ feedback = NoFeedback) =>
        /\ exit = "break"
        /\ pc = "done"
        /\ message = FailedMessage
        /\ Len(submitted) = attempt
        /\ Len(applied) = attempt - 1
        /\ possible_words = ConsistentWords

\* C7: if input_guess returns False or retrieve_feedback returns None the
\* loop ends Aborted (left by break, not by return or by running out of
\* turns), possible_words is not filtered on that turn, and nothing is
\* selected, submitted or filtered afterwards.
C7_AbortTerminal ==
    /\ []C7_Aborted
    /\ [][exit = "break" => UNCHANGED solverVars]_vars

\* the feedback channel failed on the second turn, after a first turn filtered
C7_Witness ==
    /\ feedback = NoFeedback
    /\ exit = "break"
    /\ attempt = 2
    /\ Len(applied) = 1

\* C8: at most N_GUESSES guesses are submitted, on turns 1..N_GUESSES, and a
\* run in which no turn was all Correct and no external call failed (every
\* row retrieved was the game's row for its hidden word) ends Exhausted.
C8_BoundedThenExhausted ==
    /\ Len(submitted) <= N_GUESSES
    /\ attempt \in 1..(N_GUESSES + 1)
    /\ Len(submitted) \in {attempt - 1, attempt}
    /\ (pc = "done" /\ exit \notin {"return", "break", "KeyError"} /\ GenuineRun)
          => exit = "loop_end"

\* C9: the guess of a turn that started with at most 2 possible words was
\* selected among possible_words itself, and otherwise among main_words.
C9_Pool ==
    pc \in {"submit", "observe"} =>
        /\ guess \in scored
        /\ Count(possible_words) <= 2 => (scored = possible_words /\ guess \in possible_words)
        /\ Count(possible_words) > 2 => (scored = Range(main_words) /\ guess \in Range(main_words))

\* a turn that scored main_words was followed by a turn with 2 possible
\* words, whose guess is one of them and not a word of main_words
C9_Witness ==
    /\ pc = "submit"
    /\ Len(applied) = 1
    /\ applied[1][1] \in Range(main_words)
    /\ Count(Range(all_words)) > 2
    /\ Count(possible_words) = 2
    /\ guess \in possible_words
    /\ guess \notin Range(main_words)

\* C10: under genuine feedback for a hidden word of all_words, once a turn t
\* starts with at most 2 possible words the loop is Solved no later than turn
\* t + 1, when t + 1 <= N_GUESSES and no external call fails.
C10_SolvedByNextTurn ==
    ( /\ smallAt > 0
      /\ smallAt + 1 <= N_GUESSES
      /\ \E s \in genuine_for : s \in Range(all_words)
      /\ exit # "break" )
    => /\ exit \in {"none", "return"}
       /\ attempt <= smallAt + 1

\* turn t started with 2 possible words after an earlier turn, its guess was
\* the wrong one, and turn t + 1 was Solved under genuine feedback
C10_Witness ==
    /\ exit = "return"
    /\ smallAt >= 2
    /\ attempt = smallAt + 1
    /\ \E s \in genuine_for : s \in Range(all_words) /\ s = guess

====
